---- MODULE Spec2Model ----
(***************************************************************************)
(* Model of the pet-image API: the upload handler (multipart decoder,      *)
(* field validator, chunk allocator, ingestion saga) and the read          *)
(* handler's weighted sampler.                                             *)
(*                                                                         *)
(* Conventions.  Bytes are modelled as tokens (strings); a byte string is  *)
(* a sequence of tokens.  One-character tokens stand for themselves, the   *)
(* longer tokens stand for a fixed run of bytes of a part header.  Shard   *)
(* indices are 0-based as in the code, so shard idx is chunkVolume[idx+1]. *)
(***************************************************************************)
EXTENDS Integers, Sequences, FiniteSets, TLC

VARIABLES
    infoTable,    \* chunk-info table: label -> ChunkIndexRecord
    chunksTable,  \* image-chunks table: the list of items, in insertion order
    bucket,       \* upload bucket: the set of object keys it holds
    clock,        \* int(time.time())
    uploads,      \* number of upload requests handled so far
    last,         \* what the most recent request did
    procs,        \* concurrent handlers: each one's position and locals
    parseIn,      \* decoder run: the values a body was built from
    parseOut,     \* decoder run: what bodyParser returned for that body
    sample        \* sampler run: entries, the draw and the returned key,
                  \* also those of the most recent read request

vars == <<infoTable, chunksTable, bucket, clock, uploads, last, procs,
          parseIn, parseOut, sample>>

(***************************************************************************)
(* Bounds of the model.                                                    *)
(***************************************************************************)
MaxChunkMax == 2
MaxThreshold == 1
MaxAnyThreshold == 2
MaxUploads == 3
MaxClock == 1
MaxVolume == 2
MaxShards == 2
MaxAllocs == 2
MaxCatUploads == 5
NumProcs == 2
MaxData == 2
MaxEntries == 3
MaxWeight == 3
DrawDenominator == 4

(***************************************************************************)
(* Sequence helpers.                                                       *)
(***************************************************************************)
Min(S) == CHOOSE x \in S : \A y \in S : x <= y

Range(s) == {s[i] : i \in 1..Len(s)}

\* s without its element at position p (1-based); s itself when p is outside
RemoveAt(s, p) ==
    IF p \in 1..Len(s)
    THEN SubSeq(s, 1, p - 1) \o SubSeq(s, p + 1, Len(s))
    ELSE s

\* all sequences over S of length at most n
SeqsUpTo(S, n) == UNION {[1..k -> S] : k \in 0..n}

(***************************************************************************)
(* Chunk allocator: selectAndModifyChunk.                                  *)
(***************************************************************************)
\* the record the table holds for a label before its first upload
EmptyRecord(cm, ct) ==
    [chunkMax |-> cm, chunkThreshold |-> ct, chunksNumber |-> 0,
     chunkVolume |-> <<>>, activeChunks |-> <<>>]

\* the test of the scan loop: "volume <= chunkThreshold or volume <= chunkMax"
Reusable(volume, chunkMetadata) ==
    volume <= chunkMetadata.chunkThreshold \/ volume <= chunkMetadata.chunkMax

\* list.index(idx): 0-based position of the first occurrence
IndexOf(s, x) == Min({p \in 1..Len(s) : s[p] = x}) - 1

\* The local part of selectAndModifyChunk: from the record that was read,
\* the update request it sends and the index it will return.  The scan stops
\* at the first active index that is out of range (chunkVolume[idx] raises
\* IndexError) or whose volume passes the test.
SelectChunk(chunkMetadata) ==
    LET act  == chunkMetadata.activeChunks
        vol  == chunkMetadata.chunkVolume
        stop == {p \in 1..Len(act) :
                    IF act[p] >= Len(vol) THEN TRUE
                    ELSE Reusable(vol[act[p] + 1], chunkMetadata)}
    IN  IF stop = {}
        THEN [kind |-> "new", idx |-> chunkMetadata.chunksNumber,
              newVolume |-> 1, removePos |-> -1]
        ELSE LET p   == Min(stop)
                 idx == act[p]
             IN  IF idx >= Len(vol)
                 THEN [kind |-> "raise", idx |-> idx, newVolume |-> 0,
                       removePos |-> -1]
                 ELSE LET newVolume == vol[idx + 1] + 1
                      IN  [kind |-> "reuse", idx |-> idx,
                           newVolume |-> newVolume,
                           removePos |->
                               IF newVolume >= chunkMetadata.chunkMax
                               THEN IndexOf(act, idx) ELSE -1]

\* "SET chunkVolume[idx] = :v" on the stored list: replaces the element, or
\* appends when idx is past the end
SetElement(s, idx, v) ==
    IF idx < Len(s) THEN [s EXCEPT ![idx + 1] = v] ELSE Append(s, v)

\* a new-shard update that forgets to advance chunksNumber
ApplyUpdateNoCount(item, upd) ==
    IF upd.kind = "reuse"
    THEN [item EXCEPT
            !.chunkVolume = SetElement(@, upd.idx, upd.newVolume),
            !.activeChunks = IF upd.removePos >= 0
                             THEN RemoveAt(@, upd.removePos + 1) ELSE @]
    ELSE [item EXCEPT
            !.chunkVolume = Append(@, 1),
            !.activeChunks = Append(@, upd.idx)]

\* update_item: what the store does to the item it holds NOW when it gets the
\* update expression built from the record that was read earlier
ApplyUpdate(item, upd) ==
    IF upd.kind = "reuse"
    THEN [item EXCEPT
            !.chunkVolume = SetElement(@, upd.idx, upd.newVolume),
            !.activeChunks = IF upd.removePos >= 0
                             THEN RemoveAt(@, upd.removePos + 1) ELSE @]
    ELSE [item EXCEPT
            !.chunksNumber = upd.idx + 1,
            !.chunkVolume = Append(@, 1),
            !.activeChunks = Append(@, upd.idx)]

(***************************************************************************)
(* Byte strings.  CR and LF are the line-break bytes; the tokens below     *)
(* stand for the runs of bytes a part header is made of.  The             *)
(* one-character tokens the model uses cannot spell any of these runs.     *)
(***************************************************************************)
CR == "CR"
LF == "LF"
CRLF == <<CR, LF>>
Dash == "-"

\* Content-Disposition: form-data
DispositionTok == "Content-Disposition: form-data"

\* the run  ; name="<n>"  for each field name n the model uses
NameToks == {";name=img", ";name=label", ";name=weight", ";name=note"}

\* group(1) of  ;\s*name="([^"]+)"  on such a run
NameOf(tok) ==
    CASE tok = ";name=img"    -> "img"
      [] tok = ";name=label"  -> "label"
      [] tok = ";name=weight" -> "weight"
      [] tok = ";name=note"   -> "note"

\* the run  ; filename="<f>"
FilenameToks == {";filename=a.png", ";filename=b.png"}

\* group(1) of  ;\s*filename="([^"]+)"  on such a run
FilenameOf(tok) ==
    CASE tok = ";filename=a.png" -> "a.png"
      [] tok = ";filename=b.png" -> "b.png"

\* the run  Content-Type: <mime>  (the rest of the line is captured too)
ContentTypeToks == {"Content-Type:image/png", "Content-Type:IMAGE/PNG",
                    "Content-Type:text/plain"}

MimeOf(tok) ==
    CASE tok = "Content-Type:image/png"  -> "image/png"
      [] tok = "Content-Type:IMAGE/PNG"  -> "IMAGE/PNG"
      [] tok = "Content-Type:text/plain" -> "text/plain"

\* the bytes  filename=  as they may occur anywhere, also inside a data block
FilenameEqTok == "filename="

\* whether the run of bytes a token stands for contains  filename=
HasFilenameEq(tok) == tok \in FilenameToks \/ tok = FilenameEqTok

\* position of the first occurrence of d in s (1-based), 0 when there is none
Find(s, d) ==
    LET hits == {i \in 1..(Len(s) - Len(d) + 1) :
                    SubSeq(s, i, i + Len(d) - 1) = d}
    IN  IF hits = {} THEN 0 ELSE Min(hits)

\* bytes.split(d): the pieces between non-overlapping occurrences, left to right
RECURSIVE Split(_, _)
Split(s, d) ==
    LET i == Find(s, d)
    IN  IF i = 0 THEN <<s>>
        ELSE <<SubSeq(s, 1, i - 1)>> \o Split(SubSeq(s, i + Len(d), Len(s)), d)

\* bytes.strip(chars): drops every leading and trailing byte that is in chars
RECURSIVE LStrip(_, _)
LStrip(s, chars) ==
    IF s # <<>> /\ s[1] \in chars THEN LStrip(Tail(s), chars) ELSE s

RECURSIVE RStrip(_, _)
RStrip(s, chars) ==
    IF s # <<>> /\ s[Len(s)] \in chars
    THEN RStrip(SubSeq(s, 1, Len(s) - 1), chars) ELSE s

Strip(s, chars) == RStrip(LStrip(s, chars), chars)

\* part.strip(b"\r\n")
StripLineBreaks(part) == Strip(part, {CR, LF})

\* the first token of s that is in S, as a one-element set ({} when none):
\* re.search returns the leftmost match
FirstIn(s, S) ==
    LET hits == {i \in 1..Len(s) : s[i] \in S}
    IN  IF hits = {} THEN {} ELSE {s[Min(hits)]}

\* group(1) of  Content-Type:\s*([^\r\n]+) : the value and the rest of its line
ContentTypeValue(hdr) ==
    LET i    == Min({j \in 1..Len(hdr) : hdr[j] \in ContentTypeToks})
        rest == SubSeq(hdr, i + 1, Len(hdr))
        ends == {j \in 1..Len(rest) : rest[j] \in {CR, LF}}
        line == IF ends = {} THEN rest ELSE SubSeq(rest, 1, Min(ends) - 1)
    IN  <<MimeOf(hdr[i])>> \o line

(***************************************************************************)
(* Request decoder: bodyParser.                                            *)
(***************************************************************************)
MAX_UPLOAD_SIZE == 5 * 1024 * 1024

NoHeader == <<"none">>

\* a byte that is not valid UTF-8
InvalidByte == "xFF"

\* bytes.decode("utf-8", errors="ignore"): invalid bytes are dropped
RECURSIVE Utf8Ignore(_)
Utf8Ignore(s) ==
    IF s = <<>> THEN <<>>
    ELSE (IF Head(s) = InvalidByte THEN <<>> ELSE <<Head(s)>>)
         \o Utf8Ignore(Tail(s))

\* DecodedField, one shape for both variants
FileField(filename, contentType, data) ==
    [type |-> "file", filename |-> filename, contentType |-> contentType,
     data |-> data, value |-> <<>>]

TextField(value) ==
    [type |-> "field", filename |-> "", contentType |-> <<>>,
     data |-> <<>>, value |-> value]

\* dict assignment parsedBody[name] = field
Put(dict, name, field) ==
    [n \in DOMAIN dict \cup {name} |-> IF n = name THEN field ELSE dict[n]]

EmptyDict == [n \in {} |-> TextField(<<>>)]

\* The three ways bodyParser ends: a dict of fields; the dict {"error": ...}
\* of the size check; an AttributeError, because every structural rejection
\* evaluates cfg.responder and the config module defines no responder.
ParsedOk(fields) == [kind |-> "ok", fields |-> fields]
ParsedSizeError  == [kind |-> "error", fields |-> EmptyDict]
ParsedRaise      == [kind |-> "raise", fields |-> EmptyDict]

\* the body of the loop over bodyParts, from part i on
RECURSIVE ParseParts(_, _, _)
ParseParts(bodyParts, i, parsedBody) ==
    IF i > Len(bodyParts) THEN ParsedOk(parsedBody)
    ELSE
    LET part == StripLineBreaks(bodyParts[i])
        sep  == Find(part, CRLF \o CRLF)
    IN  IF part = <<>> \/ part = <<Dash, Dash>>
        THEN ParseParts(bodyParts, i + 1, parsedBody)
        ELSE IF sep = 0 THEN ParsedRaise
        ELSE
        LET part_header == SubSeq(part, 1, sep - 1)
            part_data   == SubSeq(part, sep + 4, Len(part))
            nameMatch   == FirstIn(part_header, NameToks)
        IN  IF nameMatch = {} THEN ParsedRaise
            ELSE
            LET name == NameOf(CHOOSE t \in nameMatch : TRUE)
            IN  IF \E k \in 1..Len(part) : HasFilenameEq(part[k])
                THEN IF Len(part_data) > MAX_UPLOAD_SIZE THEN ParsedSizeError
                     ELSE
                     LET fnMatch == FirstIn(part_header, FilenameToks)
                         ctMatch == FirstIn(part_header, ContentTypeToks)
                     IN  IF fnMatch = {} \/ ctMatch = {} THEN ParsedRaise
                         ELSE ParseParts(bodyParts, i + 1,
                                Put(parsedBody, name,
                                    FileField(
                                      FilenameOf(CHOOSE t \in fnMatch : TRUE),
                                      ContentTypeValue(part_header),
                                      part_data)))
                ELSE ParseParts(bodyParts, i + 1,
                                Put(parsedBody, name,
                                    TextField(Utf8Ignore(part_data))))

\* the Content-Type header: the literal text, "boundary=", the boundary
MultipartTok == "multipart/form-data; "
BoundaryEqTok == "boundary="

\* bodyParser(requestBody, requestHeader); contentType is NoHeader when the
\* request carries no content-type header
bodyParser(requestBody, contentType) ==
    IF contentType = NoHeader \/ contentType = <<>>
       \/ MultipartTok \notin Range(contentType)
    THEN ParsedRaise
    ELSE IF BoundaryEqTok \notin Range(contentType) THEN ParsedRaise
    ELSE
    LET lastEq   == CHOOSE i \in 1..Len(contentType) :
                        /\ contentType[i] = BoundaryEqTok
                        /\ \A j \in (i + 1)..Len(contentType) :
                              contentType[j] # BoundaryEqTok
        bdrValue == Strip(SubSeq(contentType, lastEq + 1, Len(contentType)),
                          {" ", CR, LF})
        bdrBytes == <<Dash, Dash>> \o bdrValue
    IN  ParseParts(Split(requestBody, bdrBytes), 1, EmptyDict)

(***************************************************************************)
(* A multipart body as a client builds it (RFC 7578): each part is the     *)
(* delimiter, a line break, the header lines, a blank line and the data,   *)
(* followed by a line break; the body ends with the closing delimiter.     *)
(***************************************************************************)
\* part description: name token, filename token ("" for a text part),
\* content-type token ("" for none), data
PartDesc(nameTok, fnTok, ctTok, data) ==
    [nameTok |-> nameTok, fnTok |-> fnTok, ctTok |-> ctTok, data |-> data]

EncodePart(boundary, p) ==
    <<Dash, Dash>> \o boundary \o CRLF
    \o <<DispositionTok, p.nameTok>>
    \o (IF p.fnTok = "" THEN <<>> ELSE <<p.fnTok>>)
    \o (IF p.ctTok = "" THEN <<>> ELSE CRLF \o <<p.ctTok>>)
    \o CRLF \o CRLF \o p.data \o CRLF

RECURSIVE EncodeParts(_, _)
EncodeParts(boundary, ps) ==
    IF ps = <<>> THEN <<>>
    ELSE EncodePart(boundary, Head(ps)) \o EncodeParts(boundary, Tail(ps))

EncodeBody(boundary, ps) ==
    EncodeParts(boundary, ps) \o <<Dash, Dash>> \o boundary
    \o <<Dash, Dash>> \o CRLF

HeaderFor(boundary) == <<MultipartTok, BoundaryEqTok>> \o boundary


(***************************************************************************)
(* Field validator: bodyValidator.                                         *)
(***************************************************************************)
HTTP_OK == 200
HTTP_BAD_REQUEST == 400
HTTP_INTERNAL_ERROR == 500

ALLOWED_KEYS == {"img", "label", "weight"}
ALLOWED_LABELS == {<<"c", "a", "t">>, <<"d", "o", "g">>}
ALLOWED_MIMES == {<<"image/jpeg">>, <<"image/png">>, <<"image/webp">>}

Whitespace == {" ", CR, LF}

\* str.lower() on one token
LowerTok(t) ==
    CASE t = "C" -> "c"
      [] t = "A" -> "a"
      [] t = "T" -> "t"
      [] t = "IMAGE/PNG" -> "image/png"
      [] OTHER -> t

Lower(s) == [i \in 1..Len(s) |-> LowerTok(s[i])]

\* the 8-byte PNG signature, which imghdr.what recognises at the start
PngSignature == "x89PNG"

\* imghdr.what(None, h=data), for the formats the model uses
Sniff(data) ==
    IF data # <<>> /\ data[1] = PngSignature THEN "png" ELSE "none"

Digits == {"0", "1", "5", "9"}

DigitValue(d) ==
    CASE d = "0" -> 0 [] d = "1" -> 1 [] d = "5" -> 5 [] d = "9" -> 9

NotANumber == -1

\* float(value), in tenths, for the decimal literals "d" and "d.d" with
\* surrounding whitespace allowed; NotANumber stands for ValueError
ParseFloat(value) ==
    LET v == Strip(value, Whitespace)
    IN  IF Len(v) = 1 /\ v[1] \in Digits THEN 10 * DigitValue(v[1])
        ELSE IF Len(v) = 3 /\ v[1] \in Digits /\ v[2] = "." /\ v[3] \in Digits
        THEN 10 * DigitValue(v[1]) + DigitValue(v[3])
        ELSE NotANumber

\* 0.0 < weight_num < 1.0, in tenths
InOpenUnitInterval(w) == 0 < w /\ w < 10

\* bodyValidator: TRUE when it returns True, FALSE when it returns a 400
bodyValidator(req_body) ==
    /\ \A key \in DOMAIN req_body : key \in ALLOWED_KEYS
    /\ "img" \in DOMAIN req_body
    /\ req_body["img"].type = "file"
    /\ LET img == req_body["img"]
           imgMIME == Lower(img.contentType)
           expectedType == IF imgMIME \in ALLOWED_MIMES THEN "declared"
                           ELSE IF Sniff(img.data) = "png" THEN "png"
                           ELSE "none"
       IN  img.data # <<>> /\ expectedType # "none"
    /\ "label" \in DOMAIN req_body
    /\ req_body["label"].type = "field"
    /\ Lower(Strip(req_body["label"].value, Whitespace)) \in ALLOWED_LABELS
    /\ ("weight" \in DOMAIN req_body /\ req_body["weight"].type = "field")
         => /\ ParseFloat(req_body["weight"].value) # NotANumber
            /\ InOpenUnitInterval(ParseFloat(req_body["weight"].value))

(***************************************************************************)
(* Object store and entry table wrappers.                                  *)
(***************************************************************************)
BucketName == "upload-bucket"

\* key = f'{label}/{name}_{timestamp}{ext}'
ObjectKey(label, filename, timestamp) == <<label, filename, timestamp>>

\* what s3Upload returns: f"https://{bucket}.s3.amazonaws.com/{key}"
ObjectUrl(key) == <<"https://", BucketName, ".s3.amazonaws.com/", key>>

\* s3.delete_object(Key=k): the bucket without the object stored under k;
\* deleting a key the bucket does not hold succeeds and changes nothing
DeleteObject(objects, k) == objects \ {k}

\* s3Delete(s3Key=...) hands its argument to delete_object as the Key
s3DeleteKey(s3Key) == s3Key

DefaultWeight == 5

\* Decimal(str(weightValue)) if weightValue is not None else Decimal("0.5"),
\* in tenths; a File field has no "value", so .get("value") is None
RequestWeight(fields) ==
    IF "weight" \in DOMAIN fields /\ fields["weight"].type = "field"
    THEN ParseFloat(fields["weight"].value)
    ELSE DefaultWeight

Item(label, chunkId, s3key, weight) ==
    [label |-> label, chunkNumber |-> chunkId, s3key |-> s3key,
     weight |-> weight]


(***************************************************************************)
(* Upload handler: lambda_handler of upload/app.py under tryCatchHandler.  *)
(***************************************************************************)
NoKey == <<>>
NoChunk == -1

AbsentField ==
    [type |-> "absent", filename |-> "", contentType |-> <<>>,
     data |-> <<>>, value |-> <<>>]

FieldOrAbsent(fields, name) ==
    IF name \in DOMAIN fields THEN fields[name] ELSE AbsentField

\* what a request did: the response status and the store calls it made
NoRequest ==
    [status |-> 0, parse |-> "none", validated |-> FALSE,
     label |-> AbsentField, weight |-> AbsentField,
     putKey |-> NoKey, delCalled |-> FALSE, delOk |-> FALSE, delKey |-> NoKey,
     read |-> FALSE, alloc |-> "none", chunk |-> NoChunk, appended |-> FALSE,
     fail |-> "none"]

\* which external call of the request fails, if any
Fails == {"none", "put", "get", "update", "append"}

\* The handler from the decoded body on; parsed is what bodyParser returned
\* for the body and the request's content-type header.  The result is the
\* new contents of the three stores and the record of what was done.
lambda_handler(decodedBody, parsed, fail, delOk) ==
    LET same == [info |-> infoTable, items |-> chunksTable, objects |-> bucket]
        fields == parsed.fields
    IN  IF decodedBody = <<>>
        THEN same @@ [did |-> [NoRequest EXCEPT !.status = HTTP_BAD_REQUEST,
                                        !.parse = "empty"]]
        ELSE IF parsed.kind = "raise"
        THEN same @@ [did |-> [NoRequest EXCEPT !.status = HTTP_INTERNAL_ERROR,
                                               !.parse = "raise"]]
        ELSE IF parsed.kind = "error" \/ "error" \in DOMAIN fields
        THEN same @@ [did |-> [NoRequest EXCEPT !.status = HTTP_BAD_REQUEST,
                                               !.parse = "error"]]
        ELSE
        LET seen == [NoRequest EXCEPT !.parse = "ok",
                        !.label = FieldOrAbsent(fields, "label"),
                        !.weight = FieldOrAbsent(fields, "weight")]
        IN  IF ~bodyValidator(fields)
            THEN same @@ [did |-> [seen EXCEPT !.status = HTTP_BAD_REQUEST]]
            ELSE
            LET labelValue == fields["label"].value
                key        == ObjectKey(labelValue, fields["img"].filename, clock)
                s3Key      == ObjectUrl(key)
                valid      == [seen EXCEPT !.validated = TRUE, !.fail = fail]
            IN  IF fail = "put"
                THEN same @@ [did |-> [valid EXCEPT
                                         !.status = HTTP_INTERNAL_ERROR]]
                ELSE
                LET written  == bucket \cup {key}
                    stored   == [valid EXCEPT !.putKey = key]
                    \* the except branch: s3Delete(s3Key=s3Key), then a 500
                    undo(did) ==
                        [did EXCEPT !.status = HTTP_INTERNAL_ERROR,
                                    !.delCalled = TRUE, !.delOk = delOk,
                                    !.delKey = s3DeleteKey(s3Key)]
                    afterUndo == IF delOk
                                 THEN DeleteObject(written, s3DeleteKey(s3Key))
                                 ELSE written
                IN  IF fail = "get" \/ labelValue \notin DOMAIN infoTable
                    THEN [info |-> infoTable, items |-> chunksTable,
                          objects |-> afterUndo, did |-> undo(stored)]
                    ELSE
                    LET chunksInfoJson == infoTable[labelValue]
                        upd == SelectChunk(chunksInfoJson)
                        wasRead == [stored EXCEPT !.read = TRUE]
                    IN  IF upd.kind = "raise" \/ fail = "update"
                        THEN [info |-> infoTable, items |-> chunksTable,
                              objects |-> afterUndo, did |-> undo(wasRead)]
                        ELSE
                        LET info2 == [infoTable EXCEPT ![labelValue] =
                                         ApplyUpdate(@, upd)]
                            chosen == [wasRead EXCEPT !.chunk = upd.idx,
                                                      !.alloc = upd.kind]
                        IN  IF fail = "append"
                            THEN [info |-> info2, items |-> chunksTable,
                                  objects |-> afterUndo, did |-> undo(chosen)]
                            ELSE [info |-> info2,
                                  items |-> Append(chunksTable,
                                              Item(labelValue, upd.idx, s3Key,
                                                   RequestWeight(fields))),
                                  objects |-> written,
                                  did |-> [chosen EXCEPT !.status = HTTP_OK,
                                                         !.appended = TRUE]]

(***************************************************************************)
(* The requests of the model: one well-formed upload and its variations.   *)
(***************************************************************************)
Boundary == <<"B">>
Cat == <<"c", "a", "t">>
Dog == <<"d", "o", "g">>
PngBytes == <<PngSignature, "x">>

ImgPart(fnTok) == PartDesc(";name=img", fnTok, "Content-Type:image/png", PngBytes)
LabelPart(value) == PartDesc(";name=label", "", "", value)
WeightPart(value) == PartDesc(";name=weight", "", "", value)

Req(parts) == [body |-> EncodeBody(Boundary, parts), ctype |-> HeaderFor(Boundary)]

WellFormedRequests ==
    {Req(<<ImgPart(";filename=a.png"), LabelPart(l)>>) :
        l \in {Cat, <<"C", "a", "t">>, <<" ", "c", "a", "t">>,
               <<"c", "o", "w">>}}
    \cup
    {Req(<<ImgPart(";filename=b.png"), LabelPart(Cat)>>)}
    \cup
    {Req(<<ImgPart(";filename=a.png"), LabelPart(Cat), WeightPart(w)>>) :
        w \in {<<"0", ".", "5">>, <<"0", ".", "0">>, <<"1", ".", "0">>,
               <<"a">>}}
    \cup
    {\* a weight sent as a file part
     Req(<<ImgPart(";filename=a.png"), LabelPart(Cat),
           PartDesc(";name=weight", ";filename=b.png",
                    "Content-Type:text/plain", <<"9">>)>>),
     \* an unexpected field
     Req(<<ImgPart(";filename=a.png"), LabelPart(Cat),
           PartDesc(";name=note", "", "", <<"x">>)>>)}

MalformedRequests ==
    {\* no content-type header; one without multipart/form-data; one
     \* without boundary=
     [body |-> EncodeBody(Boundary, <<LabelPart(Cat)>>), ctype |-> NoHeader],
     [body |-> EncodeBody(Boundary, <<LabelPart(Cat)>>),
      ctype |-> <<"text/plain">>],
     [body |-> EncodeBody(Boundary, <<LabelPart(Cat)>>),
      ctype |-> <<MultipartTok>>],
     \* a segment without the blank-line separator
     [body |-> <<Dash, Dash>> \o Boundary \o CRLF
               \o <<DispositionTok, ";name=label">> \o CRLF \o Cat \o CRLF
               \o <<Dash, Dash>> \o Boundary \o <<Dash, Dash>> \o CRLF,
      ctype |-> HeaderFor(Boundary)],
     \* a segment without a name attribute
     [body |-> <<Dash, Dash>> \o Boundary \o CRLF
               \o <<DispositionTok>> \o CRLF \o CRLF \o Cat \o CRLF
               \o <<Dash, Dash>> \o Boundary \o <<Dash, Dash>> \o CRLF,
      ctype |-> HeaderFor(Boundary)],
     \* a file segment without its content-type
     Req(<<PartDesc(";name=img", ";filename=a.png", "", PngBytes),
           LabelPart(Cat)>>),
     \* an empty body
     [body |-> <<>>, ctype |-> HeaderFor(Boundary)]}

Requests == WellFormedRequests \cup MalformedRequests

\* whether the handler gets as far as its first store call (app.py:18-31)
ReachesStores(decodedBody, parsed) ==
    /\ decodedBody # <<>>
    /\ parsed.kind = "ok"
    /\ "error" \notin DOMAIN parsed.fields
    /\ bodyValidator(parsed.fields)

\* each request with the decoder's result for it
Decoded ==
    {[body |-> r.body, parsed |-> bodyParser(r.body, r.ctype),
      stores |-> ReachesStores(r.body, bodyParser(r.body, r.ctype))]
        : r \in Requests}

\* the ways the store calls of a request can go: none is made by a request
\* that is turned away before s3Upload
Outcomes(req) ==
    IF req.stores THEN Fails \X BOOLEAN ELSE {<<"none", TRUE>>}

(***************************************************************************)
(* Spec: upload requests handled one at a time, from empty records.        *)
(***************************************************************************)
Idle == [n \in {} |-> 0]
NoParseIn == [boundary |-> <<>>, text |-> <<>>, file |-> <<>>]
NoParse == [kind |-> "none", fields |-> EmptyDict]
NoSample == [kind |-> "none", entries |-> <<>>, draw |-> 0, result |-> 0]

Init ==
    /\ \E cm \in 1..MaxChunkMax, ct \in 0..MaxThreshold :
          infoTable = [l \in ALLOWED_LABELS |-> EmptyRecord(cm, ct)]
    /\ chunksTable = <<>>
    /\ bucket = {}
    /\ clock = 0
    /\ uploads = 0
    /\ last = NoRequest
    /\ procs = Idle
    /\ parseIn = NoParseIn
    /\ parseOut = NoParse
    /\ sample = NoSample

\* one upload request, start to finish
Upload ==
    /\ uploads < MaxUploads
    /\ \E req \in Decoded :
       \E env \in Outcomes(req) :
          LET r == lambda_handler(req.body, req.parsed, env[1], env[2])
          IN  /\ infoTable' = r.info
              /\ chunksTable' = r.items
              /\ bucket' = r.objects
              /\ last' = r.did
    /\ uploads' = uploads + 1
    /\ UNCHANGED <<clock, procs, parseIn, parseOut, sample>>

\* the clock second changes
Tick ==
    /\ clock < MaxClock
    /\ clock' = clock + 1
    /\ UNCHANGED <<infoTable, chunksTable, bucket, uploads, last, procs,
                   parseIn, parseOut, sample>>

Next == Upload \/ Tick

Spec == Init /\ [][Next]_vars


(***************************************************************************)
(* SpecAny: allocations for one label run one at a time, from any record   *)
(* in which chunkVolume has chunksNumber elements.                         *)
(***************************************************************************)
Records ==
    UNION {
        [chunkMax : 1..MaxChunkMax, chunkThreshold : 0..MaxAnyThreshold,
         chunksNumber : {n}, chunkVolume : [1..n -> 0..MaxVolume],
         activeChunks : SeqsUpTo(0..MaxShards, MaxShards)]
        : n \in 0..MaxShards}

InitAny ==
    /\ \E rec \in Records : infoTable = [l \in {Cat} |-> rec]
    /\ chunksTable = <<>>
    /\ bucket = {}
    /\ clock = 0
    /\ uploads = 0
    /\ last = NoRequest
    /\ procs = Idle
    /\ parseIn = NoParseIn
    /\ parseOut = NoParse
    /\ sample = NoSample

\* getChunksInfo(label) followed by selectAndModifyChunk on what it returned,
\* with no other writer in between; updOk is whether update_item succeeds
Allocate ==
    /\ uploads < MaxAllocs
    /\ \E label \in DOMAIN infoTable, updOk \in BOOLEAN :
          LET upd == SelectChunk(infoTable[label])
              did == [NoRequest EXCEPT !.label = TextField(label),
                                       !.read = TRUE]
          IN  IF upd.kind = "raise" \/ ~updOk
              THEN /\ infoTable' = infoTable
                   /\ last' = [did EXCEPT !.fail = "update"]
              ELSE /\ infoTable' = [infoTable EXCEPT ![label] =
                                       ApplyUpdate(@, upd)]
                   /\ last' = [did EXCEPT !.chunk = upd.idx,
                                          !.alloc = upd.kind]
    /\ uploads' = uploads + 1
    /\ UNCHANGED <<chunksTable, bucket, clock, procs, parseIn, parseOut,
                   sample>>

NextAny == Allocate

SpecAny == InitAny /\ [][NextAny]_vars

(***************************************************************************)
(* Claims about the allocator and the upload handler.                      *)
(***************************************************************************)
\* the record of the label the last request allocated in
LastRecord == infoTable[last.label.value]

\* C1: after every allocation reachable from empty records by allocations
\* run one at a time, the returned shard's volume in the persisted record is
\* at most chunkMax.
C1_ReturnedShardWithinCapacity ==
    last.chunk # NoChunk
        => LastRecord.chunkVolume[last.chunk + 1] <= LastRecord.chunkMax

\* C3: when the object was written and a later step failed, the handler's
\* delete targets the key it wrote, a successful delete leaves the bucket
\* without that object, and the request ends as a server fault.
C3_CompensationRemovesObject ==
    last.delCalled
        => /\ last.status = HTTP_INTERNAL_ERROR
           /\ last.delOk => /\ last.delKey = last.putKey
                            /\ last.putKey \notin bucket

\* C4: in every record the allocator persists, starting from any record in
\* which it holds, chunkVolume has exactly chunksNumber elements.
C4_VolumeLengthIsChunksNumber ==
    \A l \in DOMAIN infoTable :
        Len(infoTable[l].chunkVolume) = infoTable[l].chunksNumber

\* C4 witness: a new-shard allocation was persisted on top of a record that
\* already held shards
C4_Witness ==
    /\ last.alloc = "new"
    /\ last.chunk > 0
    /\ LastRecord.chunksNumber = last.chunk + 1

\* C5: a request the decoder rejects for its structure ends as a client
\* fault (400), never as a server fault, and touches no store.
C5_MalformedIsClientFault ==
    last.parse = "raise"
        => /\ last.status = HTTP_BAD_REQUEST
           /\ last.putKey = NoKey
           /\ ~last.read

\* the trimmed, case-folded label value
NormalizedLabel(value) == Lower(Strip(value, Whitespace))

\* C6: when validation succeeds the label used for the object key and the
\* record is the normalized label, a member of the allowed set, and the
\* request succeeds when no store call fails.
C6_NormalizedLabelIngested ==
    (last.validated /\ last.fail = "none")
        => /\ last.status = HTTP_OK
           /\ last.putKey[1] = NormalizedLabel(last.label.value)
           /\ last.putKey[1] \in ALLOWED_LABELS

\* C7: validation succeeds only if the weight is absent or is a Text field
\* whose value is a number strictly between 0.0 and 1.0.
C7_WeightMustBeTextInRange ==
    last.validated
        => \/ last.weight.type = "absent"
           \/ /\ last.weight.type = "field"
              /\ ParseFloat(last.weight.value) # NotANumber
              /\ InOpenUnitInterval(ParseFloat(last.weight.value))

\* no shard listed in activeChunks has volume below chunkMax
NoSpareCapacity(rec) ==
    \A p \in 1..Len(rec.activeChunks) :
        rec.activeChunks[p] < Len(rec.chunkVolume)
            => rec.chunkVolume[rec.activeChunks[p] + 1] >= rec.chunkMax

\* C10: an allocation on a record in which no active shard has volume below
\* chunkMax creates a new shard: it returns chunksNumber, appends volume 1
\* and the new index, increments chunksNumber and changes no other volume.
C10_NewShardWhenNoSpareCapacity ==
    [][(uploads' = uploads + 1 /\ last'.chunk # NoChunk)
        => LET l   == last'.label.value
               old == infoTable[l]
               new == infoTable'[l]
           IN  NoSpareCapacity(old)
                 => /\ last'.chunk = old.chunksNumber
                    /\ new.chunkVolume = Append(old.chunkVolume, 1)
                    /\ new.activeChunks =
                          Append(old.activeChunks, old.chunksNumber)
                    /\ new.chunksNumber = old.chunksNumber + 1]_vars

NoDuplicates(s) == \A i, j \in 1..Len(s) : s[i] = s[j] => i = j

\* C12: in every record reached from an empty record by uploads run one at
\* a time, activeChunks lists distinct shard indices below chunksNumber, and
\* a shard is listed exactly when its volume is below chunkMax.
C12_ActiveExactlyBelowCapacity ==
    \A l \in DOMAIN infoTable :
        LET rec == infoTable[l]
        IN  /\ NoDuplicates(rec.activeChunks)
            /\ \A idx \in Range(rec.activeChunks) : idx < rec.chunksNumber
            /\ \A idx \in 0..(rec.chunksNumber - 1) :
                  idx \in Range(rec.activeChunks)
                      <=> rec.chunkVolume[idx + 1] < rec.chunkMax

\* number of entries stored under (label, idx)
EntriesIn(label, idx) ==
    Cardinality({i \in 1..Len(chunksTable) :
                    /\ chunksTable[i].label = label
                    /\ chunksTable[i].chunkNumber = idx})

\* C14: after any sequence of uploads run one at a time, an upload whose
\* entry append failed included, every shard's volume equals the number of
\* entries stored under its label and index.
C14_VolumeEqualsEntryCount ==
    \A l \in DOMAIN infoTable :
        \A idx \in 0..(Len(infoTable[l].chunkVolume) - 1) :
            infoTable[l].chunkVolume[idx + 1] = EntriesIn(l, idx)

\* the URLs the stored entries refer to
ReferencedUrls == {chunksTable[i].s3key : i \in 1..Len(chunksTable)}

\* C16: an upload that writes an object writes it under a key that no
\* stored entry refers to, so no object of an existing entry is overwritten
\* and no two entries get the same key; two uploads with the same label and
\* filename in the same clock second included.
C16_ObjectKeyNeverReused ==
    [][(uploads' = uploads + 1 /\ last'.putKey # NoKey)
        => ObjectUrl(last'.putKey) \notin ReferencedUrls]_vars


(***************************************************************************)
(* SpecConc: upload handlers running concurrently.  Each handler is split  *)
(* at its calls to the stores, which are the points where another handler  *)
(* can act in between.  The requests are valid and every store call        *)
(* succeeds in this specification.                                         *)
(***************************************************************************)
Handlers == 1..NumProcs

NoMeta == EmptyRecord(0, 0)

IdleHandler ==
    [pc |-> "idle", label |-> Cat, s3Key |-> NoKey, meta |-> NoMeta,
     chunk |-> NoChunk]

InitConc ==
    /\ \E cm \in 1..MaxChunkMax, ct \in 0..MaxThreshold :
          infoTable = [l \in ALLOWED_LABELS |-> EmptyRecord(cm, ct)]
    /\ chunksTable = <<>>
    /\ bucket = {}
    /\ clock = 0
    /\ uploads = 0
    /\ last = NoRequest
    /\ procs = [h \in Handlers |-> IdleHandler]
    /\ parseIn = NoParseIn
    /\ parseOut = NoParse
    /\ sample = NoSample

\* a request arrives and passes validation; s3Upload writes the object
CUpload(h) ==
    /\ procs[h].pc \in {"idle", "done"}
    /\ uploads < MaxUploads
    /\ \E label \in ALLOWED_LABELS, fnTok \in FilenameToks :
          LET key == ObjectKey(label, FilenameOf(fnTok), clock)
          IN  /\ bucket' = bucket \cup {key}
              /\ procs' = [procs EXCEPT ![h] =
                              [pc |-> "read", label |-> label,
                               s3Key |-> ObjectUrl(key), meta |-> NoMeta,
                               chunk |-> NoChunk]]
    /\ uploads' = uploads + 1
    /\ UNCHANGED <<infoTable, chunksTable, clock, last, parseIn, parseOut,
                   sample>>

\* getChunksInfo: get_item returns the record as it is now
CRead(h) ==
    /\ procs[h].pc = "read"
    /\ procs' = [procs EXCEPT ![h].pc = "update",
                              ![h].meta = infoTable[procs[h].label]]
    /\ UNCHANGED <<infoTable, chunksTable, bucket, clock, uploads, last,
                   parseIn, parseOut, sample>>

\* selectAndModifyChunk: update_item with the expression computed from the
\* record read earlier, applied to the record as it is now
CUpdate(h) ==
    /\ procs[h].pc = "update"
    /\ LET upd == SelectChunk(procs[h].meta)
       IN  IF upd.kind = "raise"
           THEN /\ infoTable' = infoTable
                /\ procs' = [procs EXCEPT ![h].pc = "done"]
           ELSE /\ infoTable' = [infoTable EXCEPT ![procs[h].label] =
                                    ApplyUpdate(@, upd)]
                /\ procs' = [procs EXCEPT ![h].pc = "append",
                                          ![h].chunk = upd.idx]
    /\ UNCHANGED <<chunksTable, bucket, clock, uploads, last, parseIn,
                   parseOut, sample>>

\* appendToChunkFile: put_item of the entry
CAppend(h) ==
    /\ procs[h].pc = "append"
    /\ chunksTable' = Append(chunksTable,
                         Item(procs[h].label, procs[h].chunk, procs[h].s3Key,
                              DefaultWeight))
    /\ procs' = [procs EXCEPT ![h].pc = "done"]
    /\ UNCHANGED <<infoTable, bucket, clock, uploads, last, parseIn,
                   parseOut, sample>>

NextConc ==
    \/ \E h \in Handlers : CUpload(h)
    \/ \E h \in Handlers : CRead(h)
    \/ \E h \in Handlers : CUpdate(h)
    \/ \E h \in Handlers : CAppend(h)
    \/ Tick

SpecConc == InitConc /\ [][NextConc]_vars

\* the record after k allocations run one after another on rec
RECURSIVE AllocateTimes(_, _)
AllocateTimes(rec, k) ==
    IF k = 0 THEN rec
    ELSE LET before == AllocateTimes(rec, k - 1)
         IN  ApplyUpdate(before, SelectChunk(before))

\* number of entries appended for a label
EntryCount(label) ==
    Cardinality({i \in 1..Len(chunksTable) : chunksTable[i].label = label})

\* C2: when no handler is in flight, each label's record equals the record
\* that the same number of allocations run one after another produces;
\* chunkVolume has chunksNumber elements, and activeChunks holds no
\* duplicate and every shard that is still below chunkMax.
C2_ConcurrentAllocationsSerializable ==
    (\A h \in DOMAIN procs : procs[h].pc \in {"idle", "done"})
        => \A l \in DOMAIN infoTable :
              LET rec == infoTable[l]
              IN  /\ rec = AllocateTimes(
                             EmptyRecord(rec.chunkMax, rec.chunkThreshold),
                             EntryCount(l))
                  /\ Len(rec.chunkVolume) = rec.chunksNumber
                  /\ NoDuplicates(rec.activeChunks)
                  /\ \A idx \in 0..(Len(rec.chunkVolume) - 1) :
                        rec.chunkVolume[idx + 1] < rec.chunkMax
                            => idx \in Range(rec.activeChunks)


(***************************************************************************)
(* SpecConcCat: the concurrent handlers of SpecConc, every request for     *)
(* label cat with the same filename, so that more requests fit.            *)
(***************************************************************************)
\* a request for label cat arrives and passes validation; s3Upload writes
\* the object
CUploadCat(h) ==
    /\ procs[h].pc \in {"idle", "done"}
    /\ uploads < MaxCatUploads
    /\ LET key == ObjectKey(Cat, FilenameOf(";filename=a.png"), clock)
       IN  /\ bucket' = bucket \cup {key}
           /\ procs' = [procs EXCEPT ![h] =
                           [pc |-> "read", label |-> Cat,
                            s3Key |-> ObjectUrl(key), meta |-> NoMeta,
                            chunk |-> NoChunk]]
    /\ uploads' = uploads + 1
    /\ UNCHANGED <<infoTable, chunksTable, clock, last, parseIn, parseOut,
                   sample>>

NextConcCat ==
    \/ \E h \in Handlers : CUploadCat(h)
    \/ \E h \in Handlers : CRead(h)
    \/ \E h \in Handlers : CUpdate(h)
    \/ \E h \in Handlers : CAppend(h)

SpecConcCat == InitConc /\ [][NextConcCat]_vars

\* position in activeChunks of the first listed shard whose volume is below
\* chunkMax, 0 when there is none
FirstSpare(rec) ==
    LET spare == {p \in 1..Len(rec.activeChunks) :
                    /\ rec.activeChunks[p] < Len(rec.chunkVolume)
                    /\ rec.chunkVolume[rec.activeChunks[p] + 1] < rec.chunkMax}
    IN  IF spare = {} THEN 0
        ELSE CHOOSE p \in spare : \A q \in spare : p <= q

\* s without the members equal to x
Without(s, x) == SelectSeq(s, LAMBDA y : y # x)

\* C11: an allocation that runs on the record as it is stored, in which
\* activeChunks lists distinct shards and some listed shard has volume below
\* chunkMax, returns the first such shard in activeChunks order, adds one
\* to its volume, removes it from activeChunks exactly when the new volume
\* reaches chunkMax, and leaves chunksNumber, the other volumes and the
\* other members of activeChunks as they were.
C11_ReuseFirstShardBelowCapacity ==
    [][\A h \in Handlers :
          (/\ procs[h].pc = "update"
           /\ procs'[h].pc = "append"
           /\ procs[h].meta = infoTable[procs[h].label])
            => LET old == infoTable[procs[h].label]
                   new == infoTable'[procs[h].label]
                   p   == FirstSpare(old)
                   idx == old.activeChunks[p]
               IN  (p # 0 /\ NoDuplicates(old.activeChunks))
                     => /\ procs'[h].chunk = idx
                        /\ new.chunkVolume =
                              [old.chunkVolume EXCEPT ![idx + 1] = @ + 1]
                        /\ new.activeChunks =
                              IF old.chunkVolume[idx + 1] + 1 >= old.chunkMax
                              THEN Without(old.activeChunks, idx)
                              ELSE old.activeChunks
                        /\ new.chunksNumber = old.chunksNumber]_vars


(***************************************************************************)
(* SpecParse: bodyParser on a body built from one text field and one file  *)
(* field.                                                                  *)
(***************************************************************************)
TextBytes == {"a", CR, LF, FilenameEqTok}
FileBytes == {"x", CR, LF, Dash, "B", InvalidByte}
Boundaries == {<<"B">>, <<"B", "B">>}

InitParse ==
    /\ parseIn \in [boundary : Boundaries,
                    text : SeqsUpTo(TextBytes, MaxData) \ {<<>>},
                    file : SeqsUpTo(FileBytes, MaxData) \ {<<>>}]
    /\ parseOut = NoParse
    /\ infoTable = [l \in ALLOWED_LABELS |-> EmptyRecord(1, 0)]
    /\ chunksTable = <<>>
    /\ bucket = {}
    /\ clock = 0
    /\ uploads = 0
    /\ last = NoRequest
    /\ procs = Idle
    /\ sample = NoSample

\* the body a client builds from the two values
RoundTripBody ==
    EncodeBody(parseIn.boundary,
               <<LabelPart(parseIn.text),
                 PartDesc(";name=img", ";filename=a.png",
                          "Content-Type:image/png", parseIn.file)>>)

\* the decoder runs on the body
Decode ==
    /\ parseOut.kind = "none"
    /\ parseOut' = bodyParser(RoundTripBody, HeaderFor(parseIn.boundary))
    /\ UNCHANGED <<infoTable, chunksTable, bucket, clock, uploads, last,
                   procs, parseIn, sample>>

NextParse == Decode

SpecParse == InitParse /\ [][NextParse]_vars

Delimiter == <<Dash, Dash>> \o parseIn.boundary

\* C8: when the delimiter occurs in neither value, the body built from one
\* text field and one file field decodes to a Text field holding the text
\* and a File field holding the file bytes, also when they end in CR or LF.
C8_MultipartRoundTrip ==
    (/\ parseOut.kind # "none"
     /\ Find(parseIn.text, Delimiter) = 0
     /\ Find(parseIn.file, Delimiter) = 0)
        => /\ parseOut.kind = "ok"
           /\ DOMAIN parseOut.fields = {"label", "img"}
           /\ parseOut.fields["label"].type = "field"
           /\ parseOut.fields["label"].value = parseIn.text
           /\ parseOut.fields["img"].type = "file"
           /\ parseOut.fields["img"].data = parseIn.file

\* C13: a segment whose header block has no filename attribute decodes to a
\* Text field holding its data whatever the data bytes are, the text
\* filename= included; here the delimiter occurs in neither value and
\* neither value starts or ends with CR or LF.
C13_TextSegmentWhateverData ==
    (/\ parseOut.kind # "none"
     /\ Find(parseIn.text, Delimiter) = 0
     /\ Find(parseIn.file, Delimiter) = 0
     /\ Strip(parseIn.text, {CR, LF}) = parseIn.text
     /\ Strip(parseIn.file, {CR, LF}) = parseIn.file)
        => /\ parseOut.kind = "ok"
           /\ "label" \in DOMAIN parseOut.fields
           /\ parseOut.fields["label"].type = "field"
           /\ parseOut.fields["label"].value = parseIn.text

(***************************************************************************)
(* Sampler: weightedRandomChoice.  Weights and the draw are exact          *)
(* fractions, as the code's Decimal arithmetic is on short literals: the   *)
(* draw is draw/DrawDenominator and every quantity is scaled by            *)
(* DrawDenominator.  The entries of a shard are whatever the image-chunks  *)
(* table holds, so a weight of 0 is among them.                            *)
(***************************************************************************)
RECURSIVE SumWeights(_, _)
SumWeights(imageList, n) ==
    IF n = 0 THEN 0 ELSE SumWeights(imageList, n - 1) + imageList[n].weight

\* a test that also selects when nothing remains
SelectedInclusive(rand) == rand <= 0

\* "if rand < 0"
Selected(rand) == rand < 0

\* the loop "for item in imageList", from item i on, and the fallback
RECURSIVE ChoiceLoop(_, _, _)
ChoiceLoop(imageList, i, rand) ==
    IF i > Len(imageList) THEN imageList[Len(imageList)].s3key
    ELSE LET rest == rand - imageList[i].weight * DrawDenominator
         IN  IF Selected(rest) THEN imageList[i].s3key
             ELSE ChoiceLoop(imageList, i + 1, rest)

\* weightedRandomChoice with random.random() = draw / DrawDenominator
weightedRandomChoice(imageList, draw) ==
    LET totalWeight == SumWeights(imageList, Len(imageList))
    IN  ChoiceLoop(imageList, 1, totalWeight * draw)

EntryLists ==
    UNION {[1..n -> [s3key : 1..n, weight : 0..MaxWeight]]
           : n \in 1..MaxEntries}

InitSample ==
    /\ \E entries \in {e \in EntryLists : \A i \in 1..Len(e) : e[i].s3key = i},
          draw \in 0..(DrawDenominator - 1) :
          sample = [kind |-> "in", entries |-> entries, draw |-> draw,
                    result |-> 0]
    /\ infoTable = [l \in ALLOWED_LABELS |-> EmptyRecord(1, 0)]
    /\ chunksTable = <<>>
    /\ bucket = {}
    /\ clock = 0
    /\ uploads = 0
    /\ last = NoRequest
    /\ procs = Idle
    /\ parseIn = NoParseIn
    /\ parseOut = NoParse

\* the read handler selects an entry of the shard it queried
Choose ==
    /\ sample.kind = "in"
    /\ sample' = [sample EXCEPT !.kind = "out",
                    !.result = weightedRandomChoice(sample.entries, sample.draw)]
    /\ UNCHANGED <<infoTable, chunksTable, bucket, clock, uploads, last,
                   procs, parseIn, parseOut>>

NextSample == Choose

SpecSample == InitSample /\ [][NextSample]_vars

\* positions whose cumulative weight is strictly greater than total * r
PastDraw(entries, draw) ==
    {i \in 1..Len(entries) :
        SumWeights(entries, i) * DrawDenominator
            > SumWeights(entries, Len(entries)) * draw}

\* C9: the sampler returns the first entry, in stored order, whose
\* cumulative weight is strictly greater than total * r, and the last entry
\* when there is none; the result is one of the given entries.
C9_WeightedChoiceFirstPastDraw ==
    sample.kind = "out"
        => LET hits == PastDraw(sample.entries, sample.draw)
           IN  /\ sample.result =
                     IF hits = {} THEN sample.entries[Len(sample.entries)].s3key
                     ELSE sample.entries[Min(hits)].s3key
               /\ \E i \in 1..Len(sample.entries) :
                     sample.result = sample.entries[i].s3key

\* C9 witness: the draw lands exactly on the cumulative boundary after the
\* first entry and the second entry is returned
C9_Witness ==
    /\ sample.kind = "out"
    /\ Len(sample.entries) >= 2
    /\ sample.entries[1].weight > 0
    /\ sample.entries[1].weight * DrawDenominator
          = SumWeights(sample.entries, Len(sample.entries)) * sample.draw
    /\ sample.result = sample.entries[2].s3key


(***************************************************************************)
(* SpecRead: uploads of one valid request handled one at a time, from      *)
(* empty records, and read requests (lambda_handler of random/app.py under *)
(* tryCatchHandler) in between.                                            *)
(***************************************************************************)
HTTP_NOT_FOUND == 404

CatRequest == Req(<<ImgPart(";filename=a.png"), LabelPart(Cat)>>)

CatParsed == bodyParser(CatRequest.body, CatRequest.ctype)

\* one upload of the valid request, start to finish
UploadCat ==
    /\ uploads < MaxUploads
    /\ \E fail \in Fails, delOk \in BOOLEAN :
          LET r == lambda_handler(CatRequest.body, CatParsed, fail, delOk)
          IN  /\ infoTable' = r.info
              /\ chunksTable' = r.items
              /\ bucket' = r.objects
              /\ last' = r.did
    /\ uploads' = uploads + 1
    /\ UNCHANGED <<clock, procs, parseIn, parseOut, sample>>

\* the label of the query string: an allowed one or another
QueryLabels == ALLOWED_LABELS \cup {<<"c", "o", "w">>}

\* which store call of a read fails, if any
ReadFails == {"none", "get", "query", "object"}

\* the entries of one shard, as the query on LabelChunkIndex projects them;
\* randomChunkIDX is what random.randint returned
getRandomImageChunk(label, randomChunkIDX) ==
    LET chunksNumber == infoTable[label].chunksNumber
        inChunk(item) == /\ item.label = label
                         /\ item.chunkNumber = randomChunkIDX
        items == SelectSeq(chunksTable, inChunk)
    IN  IF chunksNumber = 0 THEN <<>>
        ELSE [i \in 1..Len(items) |->
                 [s3key |-> items[i].s3key, weight |-> items[i].weight]]

\* "https://<bucket-name>.s3.amazonaws.com/<object-key>" to its two parts
extractBucketInfo(s3Key) ==
    LET removedHttpsPrefix == Tail(s3Key)
    IN  <<removedHttpsPrefix[1], removedHttpsPrefix[3]>>

\* the read handler: the response status, the entries it queried and the
\* URL it selected
random_lambda_handler(label, fail, randomChunkIDX, draw) ==
    LET answer(status, entries, url) ==
            [status |-> status, entries |-> entries, result |-> url]
    IN  IF label \notin ALLOWED_LABELS
        THEN answer(HTTP_BAD_REQUEST, <<>>, NoKey)
        ELSE IF fail = "get"
        THEN answer(HTTP_INTERNAL_ERROR, <<>>, NoKey)
        ELSE IF infoTable[label].chunksNumber # 0 /\ fail = "query"
        THEN answer(HTTP_INTERNAL_ERROR, <<>>, NoKey)
        ELSE
        LET chunkImages == getRandomImageChunk(label, randomChunkIDX)
        IN  IF chunkImages = <<>>
            THEN answer(HTTP_NOT_FOUND, chunkImages, NoKey)
            ELSE
            LET selectedUrl == weightedRandomChoice(chunkImages, draw)
                info == extractBucketInfo(selectedUrl)
            IN  IF \/ fail = "object"
                   \/ info[1] # BucketName
                   \/ info[2] \notin bucket
                THEN answer(HTTP_INTERNAL_ERROR, chunkImages, selectedUrl)
                ELSE answer(HTTP_OK, chunkImages, selectedUrl)

\* one read request, start to finish; random.randint(0, chunksNumber - 1)
\* and random.random() are inputs
Read ==
    /\ \E label \in QueryLabels, fail \in ReadFails,
          randomChunkIDX \in 0..MaxUploads,
          draw \in 0..(DrawDenominator - 1) :
          /\ \/ randomChunkIDX = 0
             \/ /\ label \in ALLOWED_LABELS
                /\ randomChunkIDX < infoTable[label].chunksNumber
          /\ LET r == random_lambda_handler(label, fail, randomChunkIDX, draw)
             IN  /\ last' = [NoRequest EXCEPT !.parse = "query",
                                              !.status = r.status,
                                              !.label = TextField(label),
                                              !.chunk = randomChunkIDX,
                                              !.fail = fail]
                 /\ sample' = [kind |-> "read", entries |-> r.entries,
                               draw |-> draw, result |-> r.result]
    /\ UNCHANGED <<infoTable, chunksTable, bucket, clock, uploads, procs,
                   parseIn, parseOut>>

NextRead == UploadCat \/ Read

SpecRead == Init /\ [][NextRead]_vars

\* the URLs of the entries stored for a label
StoredUrls(label) ==
    {chunksTable[i].s3key :
        i \in {j \in 1..Len(chunksTable) : chunksTable[j].label = label}}

\* C15: a read for a label that has at least one stored entry, whose store
\* calls all succeed, selects one of the label's entries whatever shard
\* index below chunksNumber is drawn, and does not answer 404.
C15_ReadFindsStoredContent ==
    (/\ last.parse = "query"
     /\ last.fail = "none"
     /\ EntryCount(last.label.value) >= 1)
        => /\ last.status # HTTP_NOT_FOUND
           /\ sample.result \in StoredUrls(last.label.value)


====
